---- MODULE Spec2Model ----
(***************************************************************************)
(* A model of two subsystems of three-d:                                   *)
(*   - the process-wide shader program cache shared by InstancedModel      *)
(*     objects (src/renderer/object/instanced_mesh.rs), and                *)
(*   - the shadow state machine of DirectionalLight                        *)
(*     (src/light/directional_light.rs).                                   *)
(* Each subsystem has its own specification (SpecCache; SpecLight, and     *)
(* SpecPass for the depth pass over lists of geometries); the variables of *)
(* the other subsystem stay at their initial value.                        *)
(***************************************************************************)
EXTENDS Integers, Sequences, FiniteSets, TLC

(***************************************************************************)
(* Bounds of the model.                                                    *)
(***************************************************************************)
\* InstancedModel objects that can exist (ids 1..MaxModels).
MaxModels == 2
\* Distinct fragment shader sources that are requested (ids 1..NumSources).
NumSources == 2
\* Calls of InstancedMeshProgram::new made in one run.
MaxCompilations == 4

Models == 1..MaxModels
Sources == 1..NumSources

(***************************************************************************)
(* Option<T>: None is the empty sequence, Some(x) the one-element one.     *)
(***************************************************************************)
None == << >>
Some(x) == << x >>
is_some(o) == Len(o) = 1
is_none(o) == Len(o) = 0
unwrap(o) == o[1]

(***************************************************************************)
(* State of the program cache.                                             *)
(*   MESH_COUNT    static mut MESH_COUNT: u32                              *)
(*   PROGRAMS      static mut PROGRAMS: Option<HashMap<String, Program>>,  *)
(*                 the map a function from source to program identity      *)
(*   live          the InstancedModel objects constructed and not dropped  *)
(* History of the run, written by the actions and read by no guard:        *)
(*   compilations  calls of InstancedMeshProgram::new so far; the program  *)
(*                 a successful call returns is identified by its number   *)
(*   epoch         per source, the successful compilations since the       *)
(*                 count last fell to zero                                 *)
(*   failures      per source, the failed compilations since then          *)
(*   prior         the sources compiled successfully before then           *)
(*   torn          the value of compilations when the count last fell to   *)
(*                 zero                                                    *)
(*   cop           the last operation on the cache: its name, object,      *)
(*                 source and result, the program returned, whether the    *)
(*                 source was found (hit), the compilations it made, and   *)
(*                 the map before it                                       *)
(***************************************************************************)
VARIABLES MESH_COUNT, PROGRAMS, live, compilations, epoch, failures, prior, torn, cop

cacheVars == << MESH_COUNT, PROGRAMS, live, compilations, epoch, failures, prior,
                torn, cop >>

NoEpoch == [s \in Sources |-> 0]

\* The map of the cache after the lazy creation of lines 120-122.
programs_map == IF is_none(PROGRAMS) THEN << >> ELSE unwrap(PROGRAMS)

CacheOp(name, m, s, result, program, hit, compiled) ==
    [name |-> name, model |-> m, source |-> s, result |-> result,
     program |-> program, hit |-> hit, compiled |-> compiled,
     before |-> programs_map]

\* The statics of instanced_mesh.rs and no object constructed.
InitCache ==
    /\ MESH_COUNT = 0
    /\ PROGRAMS = None
    /\ live = {}
    /\ compilations = 0
    /\ epoch = NoEpoch
    /\ failures = NoEpoch
    /\ prior = {}
    /\ torn = 0
    /\ cop = CacheOp("init", 0, 0, "ok", 0, FALSE, 0)

\* InstancedModel::new with the count raised before the fallible call.
InstancedModel_new_counts_first(m, meshOk) ==
    /\ m \notin live
    /\ MESH_COUNT' = MESH_COUNT + 1
    /\ live' = IF meshOk THEN live \cup {m} ELSE live
    /\ cop' = CacheOp("new", m, 0, IF meshOk THEN "ok" ELSE "err", 0, FALSE, 0)
    /\ UNCHANGED << PROGRAMS, compilations, epoch, failures, prior, torn >>

\* InstancedModel::new: InstancedMesh::new(...)? returns early on an error,
\* before the count is touched; otherwise MESH_COUNT += 1 and the object lives.
InstancedModel_new(m, meshOk) ==
    /\ m \notin live
    /\ IF meshOk
       THEN /\ MESH_COUNT' = MESH_COUNT + 1
            /\ live' = live \cup {m}
            /\ cop' = CacheOp("new", m, 0, "ok", 0, FALSE, 0)
       ELSE /\ UNCHANGED << MESH_COUNT, live >>
            /\ cop' = CacheOp("new", m, 0, "err", 0, FALSE, 0)
    /\ UNCHANGED << PROGRAMS, compilations, epoch, failures, prior, torn >>

\* HashMap::insert: the key is added, or its value replaced.
map_insert(map, k, v) ==
    [x \in (DOMAIN map) \cup {k} |-> IF x = k THEN v ELSE map[x]]

\* One call of InstancedMeshProgram::new for src: the call is counted, with
\* its outcome.
compile(src, compileOk) ==
    /\ compilations < MaxCompilations
    /\ compilations' = compilations + 1
    /\ epoch' = IF compileOk THEN [epoch EXCEPT ![src] = @ + 1] ELSE epoch
    /\ failures' = IF compileOk THEN failures ELSE [failures EXCEPT ![src] = @ + 1]

\* get_or_insert_program without the contains_key test: every request
\* compiles, and inserts over the entry there is.
get_or_insert_program_no_lookup(m, src, compileOk) ==
    /\ m \in live
    /\ compile(src, compileOk)
    /\ PROGRAMS' = IF compileOk THEN Some(map_insert(programs_map, src, compilations'))
                   ELSE Some(programs_map)
    /\ cop' = CacheOp("get_or_insert_program", m, src,
                      IF compileOk THEN "ok" ELSE "err",
                      IF compileOk THEN compilations' ELSE 0, FALSE,
                      compilations' - compilations)
    /\ UNCHANGED << MESH_COUNT, live, prior, torn >>

\* get_or_insert_program inserting before the result of the compilation is
\* looked at: a failed compilation leaves an entry (program 0).
get_or_insert_program_inserts_failed(m, src, compileOk) ==
    /\ m \in live
    /\ IF src \in DOMAIN programs_map
       THEN /\ PROGRAMS' = Some(programs_map)
            /\ UNCHANGED << compilations, epoch, failures >>
            /\ cop' = CacheOp("get_or_insert_program", m, src, "ok",
                              programs_map[src], TRUE, compilations' - compilations)
       ELSE /\ compile(src, compileOk)
            /\ PROGRAMS' = Some(map_insert(programs_map, src,
                                           IF compileOk THEN compilations' ELSE 0))
            /\ cop' = CacheOp("get_or_insert_program", m, src,
                              IF compileOk THEN "ok" ELSE "err",
                              IF compileOk THEN compilations' ELSE 0, FALSE,
                              compilations' - compilations)
    /\ UNCHANGED << MESH_COUNT, live, prior, torn >>

\* InstancedModel::get_or_insert_program(&self, fragment_shader_source).
\* PROGRAMS is created when absent; on a miss InstancedMeshProgram::new is
\* called, and its `?` returns the error before HashMap::insert runs.
get_or_insert_program(m, src, compileOk) ==
    /\ m \in live
    /\ IF src \in DOMAIN programs_map
       THEN /\ PROGRAMS' = Some(programs_map)
            /\ UNCHANGED << compilations, epoch, failures >>
            /\ cop' = CacheOp("get_or_insert_program", m, src, "ok",
                              programs_map[src], TRUE, compilations' - compilations)
       ELSE /\ compile(src, compileOk)
            /\ IF compileOk
               THEN /\ PROGRAMS' = Some(map_insert(programs_map, src, compilations'))
                    /\ cop' = CacheOp("get_or_insert_program", m, src, "ok",
                                      unwrap(PROGRAMS')[src], FALSE,
                                      compilations' - compilations)
               ELSE /\ PROGRAMS' = Some(programs_map)
                    /\ cop' = CacheOp("get_or_insert_program", m, src, "err", 0, FALSE,
                                      compilations' - compilations)
    /\ UNCHANGED << MESH_COUNT, live, prior, torn >>

\* The history when the count reaches `count`: at zero a new epoch starts.
count_reaches(count) ==
    IF count = 0
    THEN /\ epoch' = NoEpoch
         /\ failures' = NoEpoch
         /\ prior' = prior \cup {s \in Sources : epoch[s] > 0}
         /\ torn' = compilations
    ELSE UNCHANGED << epoch, failures, prior, torn >>

\* Drop for InstancedModel testing the count before the decrement: the
\* cache is never reset.
InstancedModel_drop_keeps_cache(m) ==
    /\ m \in live
    /\ live' = live \ {m}
    /\ MESH_COUNT' = MESH_COUNT - 1
    /\ PROGRAMS' = IF MESH_COUNT = 0 THEN None ELSE PROGRAMS
    /\ count_reaches(MESH_COUNT')
    /\ cop' = CacheOp("drop", m, 0, "ok", 0, FALSE, 0)
    /\ UNCHANGED compilations

\* Drop for InstancedModel resetting the cache one object early, when the
\* count reaches one.
InstancedModel_drop_resets_early(m) ==
    /\ m \in live
    /\ live' = live \ {m}
    /\ MESH_COUNT' = MESH_COUNT - 1
    /\ PROGRAMS' = IF MESH_COUNT' <= 1 THEN None ELSE PROGRAMS
    /\ count_reaches(MESH_COUNT')
    /\ cop' = CacheOp("drop", m, 0, "ok", 0, FALSE, 0)
    /\ UNCHANGED compilations

\* Drop for InstancedModel: MESH_COUNT -= 1, and PROGRAMS = None at zero.
InstancedModel_drop(m) ==
    /\ m \in live
    /\ live' = live \ {m}
    /\ MESH_COUNT' = MESH_COUNT - 1
    /\ PROGRAMS' = IF MESH_COUNT' = 0 THEN None ELSE PROGRAMS
    /\ count_reaches(MESH_COUNT')
    /\ cop' = CacheOp("drop", m, 0, "ok", 0, FALSE, 0)
    /\ UNCHANGED compilations

(***************************************************************************)
(* Numbers of the light.  An f32 is a fixed-point integer in units of      *)
(* 1/Scale (1.0 is Scale); division truncates toward zero.  A Vec3 is a    *)
(* triple of such numbers.                                                 *)
(***************************************************************************)
Scale == 100
One == Scale

Abs(a) == IF a < 0 THEN -a ELSE a
fdiv(a, b) == IF (a < 0) = (b < 0) THEN Abs(a) \div Abs(b) ELSE -(Abs(a) \div Abs(b))

RECURSIVE isqrt_between(_, _, _)
\* The largest r in lo..hi with r * r <= n, by bisection.
isqrt_between(n, lo, hi) ==
    IF lo >= hi THEN lo
    ELSE LET mid == (lo + hi + 1) \div 2
         IN IF mid * mid <= n THEN isqrt_between(n, mid, hi)
            ELSE isqrt_between(n, lo, mid - 1)
\* The bisection starts below the root of the largest machine integer.
isqrt(n) == isqrt_between(n, 0, IF n < 46340 THEN n ELSE 46340)

vec3(x, y, z) == << x, y, z >>
vec_sub(a, b) == << a[1] - b[1], a[2] - b[2], a[3] - b[3] >>
vec_add(a, b) == << a[1] + b[1], a[2] + b[2], a[3] + b[3] >>
\* v * k for a scalar k in units of 1/Scale.
vec_mul(v, k) == << fdiv(v[1] * k, Scale), fdiv(v[2] * k, Scale), fdiv(v[3] * k, Scale) >>
dot(a, b) == fdiv(a[1] * b[1] + a[2] * b[2] + a[3] * b[3], Scale)
cross(a, b) ==
    << fdiv(a[2] * b[3] - a[3] * b[2], Scale),
       fdiv(a[3] * b[1] - a[1] * b[3], Scale),
       fdiv(a[1] * b[2] - a[2] * b[1], Scale) >>
\* |v| in units of 1/Scale.
magnitude(v) == isqrt(v[1] * v[1] + v[2] * v[2] + v[3] * v[3])
\* v / |v|; the inputs of the model are non-zero vectors.
normalize(v) ==
    LET m == magnitude(v)
    IN << fdiv(v[1] * Scale, m), fdiv(v[2] * Scale, m), fdiv(v[3] * Scale, m) >>

\* Vec3Ext::to_slice: the three components in order.
Vec3_to_slice(v) == << v[1], v[2], v[3] >>

(***************************************************************************)
(* Result<T, Error>.                                                       *)
(***************************************************************************)
Ok(x) == [ok |-> TRUE, val |-> x]
Err == [ok |-> FALSE, val |-> << >>]


(***************************************************************************)
(* Mat4: four columns of four numbers, as cgmath's column-major Matrix4.   *)
(***************************************************************************)
\* Matrix4::new takes its sixteen arguments column by column.
Mat4_new(c0r0, c0r1, c0r2, c0r3, c1r0, c1r1, c1r2, c1r3, c2r0, c2r1, c2r2, c2r3, c3r0, c3r1, c3r2, c3r3) ==
    << << c0r0, c0r1, c0r2, c0r3 >>, << c1r0, c1r1, c1r2, c1r3 >>,
       << c2r0, c2r1, c2r2, c2r3 >>, << c3r0, c3r1, c3r2, c3r3 >> >>

\* Entry (row r, column c) of a * b: the sum over k of a[k][r] * b[c][k].
mat_entry(a, b, r, c) ==
    fdiv(a[1][r] * b[c][1] + a[2][r] * b[c][2] + a[3][r] * b[c][3] + a[4][r] * b[c][4],
         Scale)
mat_column(a, b, c) ==
    << mat_entry(a, b, 1, c), mat_entry(a, b, 2, c),
       mat_entry(a, b, 3, c), mat_entry(a, b, 4, c) >>
mat_mul(a, b) ==
    << mat_column(a, b, 1), mat_column(a, b, 2), mat_column(a, b, 3), mat_column(a, b, 4) >>

\* Mat4Ext::to_slice: the sixteen entries, column by column.
Mat4_to_slice(m) == m[1] \o m[2] \o m[3] \o m[4]

(***************************************************************************)
(* UniformBuffer: one sequence of numbers per slot; slot index i of the    *)
(* code is position i + 1 here.                                            *)
(***************************************************************************)
zeros(n) == [i \in 1..n |-> 0]
UniformBuffer_new(sizes) == [i \in 1..Len(sizes) |-> zeros(sizes[i])]
\* An index outside the layout or data of another length than the slot is
\* an error; otherwise only that slot is replaced.
UniformBuffer_update(buf, index, data) ==
    IF index + 1 \in DOMAIN buf /\ Len(data) = Len(buf[index + 1])
    THEN Ok([buf EXCEPT ![index + 1] = data])
    ELSE Err
UniformBuffer_get(buf, index) ==
    IF index + 1 \in DOMAIN buf THEN Ok(buf[index + 1]) ELSE Err

\* DepthTargetTexture2D::new: the GPU allocation succeeds or fails.
DepthTargetTexture2D_new(width, height, allocOk) ==
    IF allocOk THEN Ok([width |-> width, height |-> height]) ELSE Err

(***************************************************************************)
(* Camera (orthographic).  A camera keeps what its constructor computes:   *)
(* the view and projection matrices and the axes of its view volume.       *)
(***************************************************************************)
\* cgmath::ortho(-w/2, w/2, -h/2, h/2, 0, depth).
ortho(width, height, depth) ==
    Mat4_new(fdiv(2 * Scale * Scale, width), 0, 0, 0,
             0, fdiv(2 * Scale * Scale, height), 0, 0,
             0, 0, -fdiv(2 * Scale * Scale, depth), 0,
             0, 0, -One, One)

\* Matrix4::look_at with the axes f (forward), s (side) and u (upward).
look_at(eye, f, s, u) ==
    Mat4_new(s[1], u[1], -f[1], 0,
             s[2], u[2], -f[2], 0,
             s[3], u[3], -f[3], 0,
             -dot(eye, s), -dot(eye, u), dot(eye, f), One)

Camera_new_orthographic(position, target, up, width, height, depth, cameraOk) ==
    LET f == normalize(vec_sub(target, position))
        s == normalize(cross(f, up))
        u == cross(s, f)
    IN IF cameraOk
       THEN Ok([position |-> position, target |-> target, up |-> up,
                width |-> width, height |-> height, depth |-> depth,
                forward |-> f, side |-> s, upward |-> u,
                projection |-> ortho(width, height, depth),
                view |-> look_at(position, f, s, u)])
       ELSE Err

Camera_projection(camera) == camera.projection
Camera_view(camera) == camera.view

\* The eight corners of an axis aligned box [min, max].
aabb_corners(aabb) ==
    { << x, y, z >> : x \in {aabb.min[1], aabb.max[1]},
                      y \in {aabb.min[2], aabb.max[2]},
                      z \in {aabb.min[3], aabb.max[3]} }

\* Camera::in_frustum: false exactly when all eight corners of the box lie
\* outside one of the six planes of the view volume.
Camera_in_frustum(camera, aabb) ==
    LET rel == { vec_sub(p, camera.position) : p \in aabb_corners(aabb) }
    IN ~ \/ \A q \in rel : 2 * dot(q, camera.side) < -camera.width
         \/ \A q \in rel : 2 * dot(q, camera.side) > camera.width
         \/ \A q \in rel : 2 * dot(q, camera.upward) < -camera.height
         \/ \A q \in rel : 2 * dot(q, camera.upward) > camera.height
         \/ \A q \in rel : dot(q, camera.forward) < 0
         \/ \A q \in rel : dot(q, camera.forward) > camera.depth

(***************************************************************************)
(* Geometries handed to the shadow pass.  A geometry is a mesh, with or    *)
(* without a bounding box, or an InstancedModel.                           *)
(***************************************************************************)
\* Geometry for InstancedModel: aabb() is None.
InstancedModel_aabb == None

Box(lo, hi) == [min |-> << lo, lo, lo >>, max |-> << hi, hi, hi >>]

\* The geometries of the scene: a box across the x = y = z = 5 corner, a box
\* far away, and an instanced model.
GeometryPool ==
    << [kind |-> "mesh", aabb |-> Some(Box(4 * One, 6 * One))],
       [kind |-> "mesh", aabb |-> Some(Box(50 * One, 52 * One))],
       [kind |-> "instanced", aabb |-> None] >>

\* Geometry::aabb of a geometry of the scene.
Geometry_aabb(g) == IF g.kind = "instanced" THEN InstancedModel_aabb ELSE g.aabb

(***************************************************************************)
(* DirectionalLight.  A light is a record                                  *)
(*   light_buffer    the UniformBuffer of five slots                       *)
(*   shadow_texture  the DepthTargetTexture2D, by its width and height     *)
(*   shadow_camera   Option<Camera>                                        *)
(* An operation is an operator from the light (and its inputs) to          *)
(*   [light, result, ...]: the light it leaves and "ok", "err" (it         *)
(*   returned Err) or "panic" (an unwrap of an Err).                       *)
(***************************************************************************)
\* UniformBuffer::new(context, &[3u32, 1, 3, 1, 16]).
LightBufferSizes == << 3, 1, 3, 1, 16 >>

Done(l) == [light |-> l, result |-> "ok"]
Panic(l) == [light |-> l, result |-> "panic"]

\* set_color: light_buffer.update(0, color).unwrap().
DirectionalLight_set_color(l, color) ==
    LET r == UniformBuffer_update(l.light_buffer, 0, Vec3_to_slice(color))
    IN IF r.ok THEN Done([l EXCEPT !.light_buffer = r.val]) ELSE Panic(l)

\* set_intensity: light_buffer.update(1, [intensity]).unwrap().
DirectionalLight_set_intensity(l, intensity) ==
    LET r == UniformBuffer_update(l.light_buffer, 1, << intensity >>)
    IN IF r.ok THEN Done([l EXCEPT !.light_buffer = r.val]) ELSE Panic(l)

\* set_direction that also marks the shadow map stale by writing 0.0 to
\* slot 3.
DirectionalLight_set_direction_invalidates(l, direction) ==
    LET r == UniformBuffer_update(l.light_buffer, 2, Vec3_to_slice(normalize(direction)))
        f == UniformBuffer_update(r.val, 3, << 0 >>)
    IN IF r.ok /\ f.ok THEN Done([l EXCEPT !.light_buffer = f.val]) ELSE Panic(l)

\* set_direction: light_buffer.update(2, direction.normalize()).unwrap().
DirectionalLight_set_direction(l, direction) ==
    LET r == UniformBuffer_update(l.light_buffer, 2, Vec3_to_slice(normalize(direction)))
    IN IF r.ok THEN Done([l EXCEPT !.light_buffer = r.val]) ELSE Panic(l)

\* direction() normalizing what it reads from slot 2.
DirectionalLight_direction_renormalizes(l) ==
    LET d == UniformBuffer_get(l.light_buffer, 2).val
    IN normalize(vec3(d[1], d[2], d[3]))

\* direction: the three numbers of slot 2 (get(2).unwrap() cannot fail on
\* the five-slot layout).
DirectionalLight_direction(l) ==
    LET d == UniformBuffer_get(l.light_buffer, 2).val
    IN vec3(d[1], d[2], d[3])

\* DirectionalLight::new: the buffer and the 1x1 texture are allocated with
\* `?`, then intensity, color and direction are set.
DirectionalLight_new(intensity, color, direction, bufferOk, textureOk) ==
    LET texture == DepthTargetTexture2D_new(1, 1, textureOk)
    IN IF ~bufferOk \/ ~texture.ok THEN Err
       ELSE LET l0 == [light_buffer |-> UniformBuffer_new(LightBufferSizes),
                       shadow_texture |-> texture.val,
                       shadow_camera |-> None]
                l1 == DirectionalLight_set_intensity(l0, intensity).light
                l2 == DirectionalLight_set_color(l1, color).light
                l3 == DirectionalLight_set_direction(l2, direction).light
            IN Ok(l3)

\* clear_shadow_map without the reallocation of the texture.
DirectionalLight_clear_shadow_map_keeps_texture(l, textureOk) ==
    LET l1 == [l EXCEPT !.shadow_camera = None]
        r == UniformBuffer_update(l1.light_buffer, 3, << 0 >>)
    IN IF ~r.ok THEN Panic(l1)
       ELSE Done([l1 EXCEPT !.light_buffer = r.val])

\* clear_shadow_map writing 1.0 - flag to slot 3 in place of 0.0.
DirectionalLight_clear_shadow_map_toggles(l, textureOk) ==
    LET l1 == [l EXCEPT !.shadow_camera = None]
        texture == DepthTargetTexture2D_new(1, 1, textureOk)
        l2 == [l1 EXCEPT !.shadow_texture = texture.val]
        r == UniformBuffer_update(l2.light_buffer, 3,
                                  << One - UniformBuffer_get(l2.light_buffer, 3).val[1] >>)
    IN IF ~texture.ok THEN Panic(l1)
       ELSE IF ~r.ok THEN Panic(l2)
       ELSE Done([l2 EXCEPT !.light_buffer = r.val])

\* clear_shadow_map: the camera is dropped, the texture replaced by a new
\* 1x1 one (unwrap), slot 3 set to 0.0 (unwrap).
DirectionalLight_clear_shadow_map(l, textureOk) ==
    LET l1 == [l EXCEPT !.shadow_camera = None]
        texture == DepthTargetTexture2D_new(1, 1, textureOk)
        l2 == [l1 EXCEPT !.shadow_texture = texture.val]
        r == UniformBuffer_update(l2.light_buffer, 3, << 0 >>)
    IN IF ~texture.ok THEN Panic(l1)
       ELSE IF ~r.ok THEN Panic(l2)
       ELSE Done([l2 EXCEPT !.light_buffer = r.val])

\* shadow_matrix: bias_matrix * camera.projection() * camera.view().
shadow_matrix(camera) ==
    LET Half == One \div 2
        bias_matrix == Mat4_new(Half, 0, 0, 0, 0, Half, 0, 0,
                                0, 0, Half, 0, Half, Half, Half, One)
    IN mat_mul(mat_mul(bias_matrix, Camera_projection(camera)), Camera_view(camera))

\* The cross product as it is, of any length.
compute_up_direction_unnormalized(direction) ==
    IF 10 * Abs(dot(vec3(One, 0, 0), direction)) > 9 * One
    THEN cross(vec3(0, One, 0), direction)
    ELSE cross(vec3(One, 0, 0), direction)

\* compute_up_direction: the y axis is the cross partner when the direction
\* is within 0.9 of the x axis, the x axis otherwise.
compute_up_direction(direction) ==
    IF 10 * Abs(dot(vec3(One, 0, 0), direction)) > 9 * One
    THEN normalize(cross(vec3(0, One, 0), direction))
    ELSE normalize(cross(vec3(One, 0, 0), direction))

\* Lines 88-99 of generate_shadow_map: the camera made from the stored
\* direction, the target and the frustum.
shadow_camera_new(l, target, frustrum_width, frustrum_height, frustrum_depth, cameraOk) ==
    LET direction == DirectionalLight_direction(l)
        up == compute_up_direction(direction)
        position == vec_sub(target,
                            vec_mul(vec_mul(normalize(direction), One \div 2),
                                    frustrum_depth))
    IN Camera_new_orthographic(position, target, up, frustrum_width,
                               frustrum_height, frustrum_depth, cameraOk)

RECURSIVE render_from_skips_unbounded(_, _, _, _, _)
\* The loop with unwrap_or(false): a geometry without a bounding box is
\* skipped.
render_from_skips_unbounded(camera, geometries, i, failAt, rendered) ==
    IF i > Len(geometries) THEN [ok |-> TRUE, rendered |-> rendered]
    ELSE LET aabb == Geometry_aabb(GeometryPool[geometries[i]])
             included == IF is_some(aabb)
                         THEN Camera_in_frustum(camera, unwrap(aabb))
                         ELSE FALSE
         IN IF ~included
            THEN render_from_skips_unbounded(camera, geometries, i + 1, failAt, rendered)
            ELSE IF i = failAt THEN [ok |-> FALSE, rendered |-> rendered]
            ELSE render_from_skips_unbounded(camera, geometries, i + 1, failAt,
                                             Append(rendered, i))

RECURSIVE render_from(_, _, _, _, _)
\* The loop of lines 116-128 from position i on: a geometry is rendered when
\* it has no bounding box or its box is in the frustum; the first failing
\* render_depth ends the loop with its error.  failAt is the position whose
\* render_depth fails (0: none does); rendered collects the positions whose
\* render_depth returned Ok.
render_from(camera, geometries, i, failAt, rendered) ==
    IF i > Len(geometries) THEN [ok |-> TRUE, rendered |-> rendered]
    ELSE LET aabb == Geometry_aabb(GeometryPool[geometries[i]])
             included == IF is_some(aabb)
                         THEN Camera_in_frustum(camera, unwrap(aabb))
                         ELSE TRUE
         IN IF ~included
            THEN render_from(camera, geometries, i + 1, failAt, rendered)
            ELSE IF i = failAt THEN [ok |-> FALSE, rendered |-> rendered]
            ELSE render_from(camera, geometries, i + 1, failAt, Append(rendered, i))

\* The closure given to shadow_texture.write.
render_geometries(camera, geometries, failAt) ==
    render_from(camera, geometries, 1, failAt, << >>)

Gen(l, result, failed, rendered) ==
    [light |-> l, result |-> result, failed |-> failed, rendered |-> rendered]

\* The first part of generate_shadow_map leaving slot 4 as it is when the
\* shadow flag is already 1.0.
generate_shadow_map_camera_cached(l, camera) ==
    LET l1 == [l EXCEPT !.shadow_camera = Some(camera.val)]
        r4 == IF UniformBuffer_get(l1.light_buffer, 3).val = << One >>
              THEN Ok(l1.light_buffer)
              ELSE UniformBuffer_update(l1.light_buffer, 4,
                       Mat4_to_slice(shadow_matrix(unwrap(l1.shadow_camera))))
    IN IF ~camera.ok THEN Gen(l, "err", "camera", << >>)
       ELSE IF ~r4.ok THEN Gen(l1, "err", "update", << >>)
       ELSE Gen([l1 EXCEPT !.light_buffer = r4.val], "ok", "none", << >>)

\* generate_shadow_map up to line 103: the camera, when its construction
\* succeeded (`?` at line 99), is stored and the shadow matrix written to
\* slot 4 (`?` at line 103).  camera is the Result of shadow_camera_new.
generate_shadow_map_camera(l, camera) ==
    LET l1 == [l EXCEPT !.shadow_camera = Some(camera.val)]
        r4 == UniformBuffer_update(l1.light_buffer, 4,
                                   Mat4_to_slice(shadow_matrix(unwrap(l1.shadow_camera))))
    IN IF ~camera.ok THEN Gen(l, "err", "camera", << >>)
       ELSE IF ~r4.ok THEN Gen(l1, "err", "update", << >>)
       ELSE Gen([l1 EXCEPT !.light_buffer = r4.val], "ok", "none", << >>)

\* The second part of generate_shadow_map with slot 3 set to 1.0 before the
\* geometries are rendered.
generate_shadow_map_pass_flag_first(begun, texture_width, texture_height, geometries, textureOk, failAt) ==
    LET l2 == begun.light
        texture == DepthTargetTexture2D_new(texture_width, texture_height, textureOk)
        l3 == [l2 EXCEPT !.shadow_texture = texture.val]
        r3 == UniformBuffer_update(l3.light_buffer, 3, << One >>)
        l4 == [l3 EXCEPT !.light_buffer = r3.val]
        pass == render_geometries(unwrap(l4.shadow_camera), geometries, failAt)
    IN IF begun.result # "ok" THEN begun
       ELSE IF ~texture.ok THEN Gen(l2, "panic", "texture", << >>)
       ELSE IF ~r3.ok THEN Gen(l3, "err", "update", << >>)
       ELSE IF ~pass.ok THEN Gen(l4, "err", "render", pass.rendered)
       ELSE Gen(l4, "ok", "none", pass.rendered)

\* generate_shadow_map from line 105 on, after generate_shadow_map_camera
\* returned `begun`: the texture is replaced (unwrap at line 113), the
\* geometries are rendered into it (`?` at line 130) and slot 3 is set to 1.0
\* (`?` at line 131).  textureOk: the allocation succeeds; failAt: the
\* position whose render_depth fails.
generate_shadow_map_pass(begun, texture_width, texture_height, geometries, textureOk, failAt) ==
    LET l2 == begun.light
        texture == DepthTargetTexture2D_new(texture_width, texture_height, textureOk)
        l3 == [l2 EXCEPT !.shadow_texture = texture.val]
        pass == render_geometries(unwrap(l3.shadow_camera), geometries, failAt)
        r3 == UniformBuffer_update(l3.light_buffer, 3, << One >>)
    IN IF begun.result # "ok" THEN begun
       ELSE IF ~texture.ok THEN Gen(l2, "panic", "texture", << >>)
       ELSE IF ~pass.ok THEN Gen(l3, "err", "render", pass.rendered)
       ELSE IF ~r3.ok THEN Gen(l3, "err", "update", pass.rendered)
       ELSE Gen([l3 EXCEPT !.light_buffer = r3.val], "ok", "none", pass.rendered)

(***************************************************************************)
(* Inputs of the light operations.                                         *)
(***************************************************************************)
\* Longest list of geometries given to generate_shadow_map.
MaxGeometries == 2

Colors == { << One, One, One >>, << One, 0, 0 >> }
Intensities == { One, 2 * One }
\* Non-zero directions, not of unit length, within 0.9 of the x axis or not.
Directions == { << 2 * One, 0, 0 >>, << -3 * One, -4 * One, 0 >> }
Targets == { << 0, 0, 0 >> }
\* << frustrum_width, frustrum_height, frustrum_depth >>
Frustums == { << 10 * One, 10 * One, 10 * One >>, << 4 * One, 4 * One, 20 * One >> }
\* << texture_width, texture_height >>
TextureSizes == { << 512, 512 >>, << 1024, 256 >> }

RECURSIVE SeqsUpTo(_, _)
\* The sequences over S of length at most n.
SeqsUpTo(S, n) ==
    IF n = 0 THEN { << >> }
    ELSE LET shorter == SeqsUpTo(S, n - 1)
         IN shorter \cup { Append(q, x) : q \in shorter, x \in S }

\* Every list of geometries of the scene, by their positions in GeometryPool.
GeometryLists == SeqsUpTo(DOMAIN GeometryPool, MaxGeometries)
\* The lists used where the shadow pass is not what is looked at: no
\* geometry, the instanced model, a box and the instanced model.
SceneLists == { << >>, << 3 >>, << 1, 3 >> }

(***************************************************************************)
(* Draw calls of InstancedModel.  A Color is [r, g, b, a] of u8; a         *)
(* RenderStates is [write_mask, depth_test, cull, blend].                  *)
(***************************************************************************)
\* The fragment source of render_with_color, include_str!("shaders/mesh_color.frag"),
\* as a source of the cache.
MeshColorFrag == 1

\* CullType::default() and RenderStates::default().
CullType_default == "None"
RenderStates_default ==
    [write_mask |-> "COLOR_AND_DEPTH", depth_test |-> "Less",
     cull |-> CullType_default, blend |-> None]

\* render_states with the configured cull mode left out of the opaque state.
render_states_opaque_default_cull(self_cull, transparent) ==
    IF transparent
    THEN [RenderStates_default EXCEPT !.cull = self_cull,
                                      !.write_mask = "COLOR",
                                      !.blend = Some("TRANSPARENCY")]
    ELSE RenderStates_default

\* InstancedModel::render_states(&self, transparent), self_cull being self.cull.
render_states(self_cull, transparent) ==
    IF transparent
    THEN [RenderStates_default EXCEPT !.cull = self_cull,
                                      !.write_mask = "COLOR",
                                      !.blend = Some("TRANSPARENCY")]
    ELSE [RenderStates_default EXCEPT !.cull = self_cull]

\* InstancedModel::render_with_color after get_or_insert_program returned
\* (programOk: with Ok): use_uniform_vec4 with `?`, then mesh.render with
\* the render states of color.a != 255, whose Result is returned.  states is
\* what mesh.render was given, None when it was not called.
render_with_color(self_cull, color, programOk, uniformOk, renderOk) ==
    IF ~programOk \/ ~uniformOk THEN [states |-> None, result |-> "err"]
    ELSE [states |-> Some(render_states(self_cull, color.a # 255)),
          result |-> IF renderOk THEN "ok" ELSE "err"]

\* Inputs of the draw calls.
CullTypes == { "None", "Back" }
DrawColors ==
    { [r |-> 255, g |-> 0, b |-> 0, a |-> 255], [r |-> 0, g |-> 0, b |-> 0, a |-> 255],
      [r |-> 255, g |-> 0, b |-> 0, a |-> 128], [r |-> 0, g |-> 0, b |-> 0, a |-> 0] }

(***************************************************************************)
(* State of the draw calls.                                                *)
(*   cull   the field `cull` of each InstancedModel (the default for an    *)
(*          object that is not live)                                       *)
(*   call   history: the last call of a function that is checked on its    *)
(*          own, with its inputs and what it returned                      *)
(***************************************************************************)
VARIABLES cull, call

drawVars == << cull, call >>

NoCall == [fn |-> "none"]

InitNoDraw ==
    /\ cull = [m \in Models |-> CullType_default]
    /\ call = NoCall

(***************************************************************************)
(* Several threads.  Operations on different objects are steps of          *)
(* different threads and interleave; what one step is depends on grain:    *)
(*   "handler"    InstancedModel::new, get_or_insert_program and drop are  *)
(*                one step each                                            *)
(*   "statement"  as above, but of drop only MESH_COUNT -= 1 is one step;  *)
(*                the test MESH_COUNT == 0 and PROGRAMS = None are steps   *)
(*                of their own                                             *)
(*   pc           per object, where its drop is: "idle" (none running),    *)
(*                "test" (before the test), "reset" (before the reset)     *)
(***************************************************************************)
VARIABLES grain, pc

raceVars == << grain, pc >>

InitNoRace ==
    /\ grain = "handler"
    /\ pc = [m \in Models |-> "idle"]

(***************************************************************************)
(* State of the light.                                                     *)
(*   light      Option<DirectionalLight>: the light of the program         *)
(*   unwinding  an operation on the light panicked; the light is not used  *)
(*              again                                                      *)
(* History of the run, read by no guard:                                   *)
(*   lop        the last operation on the light: its name and result,      *)
(*              whether the operation before it was the same (again), the  *)
(*              step that failed, the                                      *)
(*              geometry list and the positions rendered (generate), and   *)
(*              the last shadow transition with the texture size it asked  *)
(*   cycle      progress of generate(args); clear; generate(args) with no  *)
(*              other operation between: stage 1 after the first generate  *)
(*              (matrix: the slot 4 it wrote), 2 after the clear, 3 after  *)
(*              the second generate with the same args                     *)
(***************************************************************************)
VARIABLES light, unwinding, lop, cycle

lightVars == << light, unwinding, lop, cycle >>
vars == << cacheVars, lightVars, drawVars, raceVars >>
\* What the operations on the light, and those on the cache, leave alone.
notLightVars == << cacheVars, drawVars, raceVars >>
notCacheVars == << lightVars, drawVars, raceVars >>
notDrawVars == << lightVars, raceVars >>

NoCycle == [stage |-> 0, args |-> << >>, matrix |-> << >>]

LightOp(name, result, again, failed, geometries, rendered, shadow, texture) ==
    [name |-> name, result |-> result, again |-> again, failed |-> failed,
     geometries |-> geometries, rendered |-> rendered,
     shadow |-> shadow, texture |-> texture]

\* No light constructed.
InitNoLight ==
    /\ light = None
    /\ unwinding = FALSE
    /\ lop = LightOp("init", "ok", FALSE, "none", << >>, << >>, "absent", << 1, 1 >>)
    /\ cycle = NoCycle

\* The light as DirectionalLight::new returns it.
InitLight ==
    \E intensity \in Intensities, color \in Colors, direction \in Directions :
        /\ light = Some(DirectionalLight_new(intensity, color, direction, TRUE, TRUE).val)
        /\ unwinding = FALSE
        /\ lop = LightOp("new", "ok", FALSE, "none", << >>, << >>, "new", << 1, 1 >>)
        /\ cycle = NoCycle

usable == is_some(light) /\ ~unwinding

\* The program drops its light, if any, and constructs one; the allocation
\* of the buffer or of the texture may fail.
LightNew ==
    /\ \E intensity \in Intensities, color \in Colors, direction \in Directions,
          bufferOk \in BOOLEAN, textureOk \in BOOLEAN :
        /\ bufferOk \/ textureOk
        /\ \E r \in { DirectionalLight_new(intensity, color, direction,
                                           bufferOk, textureOk) } :
           /\ light' = IF r.ok THEN Some(r.val) ELSE None
           /\ unwinding' = FALSE
           /\ lop' = LightOp("new", IF r.ok THEN "ok" ELSE "err", FALSE,
                             IF r.ok THEN "none" ELSE "allocation", << >>, << >>,
                             IF r.ok THEN "new" ELSE "absent", << 1, 1 >>)
           /\ cycle' = NoCycle
    /\ UNCHANGED notLightVars

\* A setter: the light it leaves, and the shadow history kept.
Setter(name, r) ==
    /\ light' = Some(r.light)
    /\ unwinding' = (r.result = "panic")
    /\ lop' = LightOp(name, r.result, FALSE, "none", << >>, << >>,
                      IF r.result = "panic" THEN "panic" ELSE lop.shadow, lop.texture)
    /\ cycle' = NoCycle
    /\ UNCHANGED notLightVars

SetColor ==
    /\ usable
    /\ \E color \in Colors :
        \E r \in { DirectionalLight_set_color(unwrap(light), color) } :
            Setter("set_color", r)

SetIntensity ==
    /\ usable
    /\ \E intensity \in Intensities :
        \E r \in { DirectionalLight_set_intensity(unwrap(light), intensity) } :
            Setter("set_intensity", r)

SetDirection ==
    /\ usable
    /\ \E direction \in Directions :
        \E r \in { DirectionalLight_set_direction(unwrap(light), direction) } :
            Setter("set_direction", r)

\* textureOk: whether the allocation of the 1x1 texture succeeds.
ClearShadowMap ==
    /\ usable
    /\ \E textureOk \in BOOLEAN :
        \E r \in { DirectionalLight_clear_shadow_map(unwrap(light), textureOk) } :
           /\ light' = Some(r.light)
           /\ unwinding' = (r.result = "panic")
           /\ lop' = LightOp("clear_shadow_map", r.result,
                             lop.name = "clear_shadow_map" /\ lop.result = "ok",
                             IF r.result = "panic" THEN "texture" ELSE "none",
                             << >>, << >>,
                             IF r.result = "panic" THEN "panic" ELSE "clear", << 1, 1 >>)
           /\ cycle' = IF r.result = "ok" /\ cycle.stage \in {1, 3}
                       THEN [cycle EXCEPT !.stage = 2]
                       ELSE NoCycle
    /\ UNCHANGED notLightVars

\* One call of generate_shadow_map with its frustum, texture size and
\* geometries taken from the given sets.  cameraOk, textureOk and failAt say
\* which fallible step fails (failAt: the position of the geometry whose
\* render_depth fails, 0 for none); the first failure ends the call, so one
\* failing step at a time covers every outcome.
Generate(frustums, sizes, lists) ==
    /\ usable
    /\ \E target \in Targets, frustum \in frustums, cameraOk \in BOOLEAN :
        \E camera \in { shadow_camera_new(unwrap(light), target, frustum[1],
                                          frustum[2], frustum[3], cameraOk) } :
        \E begun \in { generate_shadow_map_camera(unwrap(light), camera) } :
        \E size \in sizes, geometries \in lists,
           textureOk \in BOOLEAN, failAt \in 0..MaxGeometries :
            /\ failAt <= Len(geometries)
            /\ ~cameraOk => textureOk /\ failAt = 0
            /\ ~textureOk => failAt = 0
            /\ \E r \in { generate_shadow_map_pass(begun, size[1], size[2],
                                                   geometries, textureOk, failAt) } :
                LET args == << target, frustum, size, geometries >>
                IN /\ light' = Some(r.light)
                   /\ unwinding' = (r.result = "panic")
                   /\ lop' = LightOp("generate_shadow_map", r.result, FALSE, r.failed,
                                     geometries, r.rendered,
                                     CASE r.result = "ok" -> "gen_ok"
                                       [] r.result = "err" -> "gen_err"
                                       [] OTHER -> "panic",
                                     size)
                   /\ cycle' = IF r.result # "ok" THEN NoCycle
                               ELSE IF cycle.stage = 2 /\ cycle.args = args
                               THEN [cycle EXCEPT !.stage = 3]
                               ELSE [stage |-> 1, args |-> args,
                                     matrix |-> r.light.light_buffer[5]]
    /\ UNCHANGED notLightVars

GenerateShadowMap == Generate(Frustums, TextureSizes, SceneLists)

\* generate_shadow_map over every list of geometries of the scene.
GenerateShadowMapScene == Generate(Frustums, { << 512, 512 >> }, GeometryLists)

New == 
    /\ \E m \in Models, meshOk \in BOOLEAN : InstancedModel_new(m, meshOk)
    /\ UNCHANGED notCacheVars
GetOrInsert ==
    /\ \E m \in Models, src \in Sources, compileOk \in BOOLEAN :
        get_or_insert_program(m, src, compileOk)
    /\ UNCHANGED notCacheVars
Drop == 
    /\ \E m \in Models : InstancedModel_drop(m)
    /\ UNCHANGED notCacheVars

NextCache == New \/ GetOrInsert \/ Drop

NextLight ==
    \/ LightNew
    \/ SetColor
    \/ SetIntensity
    \/ SetDirection
    \/ ClearShadowMap
    \/ GenerateShadowMap

InitOfCache == InitCache /\ InitNoLight /\ InitNoDraw /\ InitNoRace

\* The program cache and the InstancedModel objects that share it.
SpecCache == InitOfCache /\ [][NextCache]_vars

InitOfLight == InitCache /\ InitLight /\ InitNoDraw /\ InitNoRace

\* One DirectionalLight and the operations on it.
SpecLight == InitOfLight /\ [][NextLight]_vars

\* A white light of intensity 1.0, of any direction.
InitPass ==
    /\ light \in { Some(DirectionalLight_new(One, << One, One, One >>, direction,
                                              TRUE, TRUE).val) :
                    direction \in Directions }
    /\ unwinding = FALSE
    /\ lop = LightOp("new", "ok", FALSE, "none", << >>, << >>, "new", << 1, 1 >>)
    /\ cycle = NoCycle

NextPass ==
    \/ SetDirection
    \/ GenerateShadowMapScene

InitOfPass == InitCache /\ InitPass /\ InitNoDraw /\ InitNoRace

\* The shadow pass of one DirectionalLight over the lists of geometries.
SpecPass == InitOfPass /\ [][NextPass]_vars

\* InstancedModel::new, the new object with the default cull mode (line 22).
DrawNew ==
    /\ \E m \in Models, meshOk \in BOOLEAN :
        /\ InstancedModel_new(m, meshOk)
        /\ cull' = IF meshOk THEN [cull EXCEPT ![m] = CullType_default] ELSE cull
    /\ call' = NoCall
    /\ UNCHANGED notDrawVars

\* The drop of an InstancedModel, its fields with it.
DrawDrop ==
    /\ \E m \in Models :
        /\ InstancedModel_drop(m)
        /\ cull' = [cull EXCEPT ![m] = CullType_default]
    /\ call' = NoCall
    /\ UNCHANGED notDrawVars

\* An assignment to the public field `cull` of a live object.
SetCull ==
    /\ \E m \in live, c \in CullTypes :
        /\ cull[m] # c
        /\ cull' = [cull EXCEPT ![m] = c]
    /\ call' = NoCall
    /\ UNCHANGED << cacheVars, notDrawVars >>

\* render_with_color on a live object: the request for the program of
\* mesh_color.frag, then the rest of the function.
RenderWithColor ==
    /\ \E m \in Models, color \in DrawColors,
          compileOk \in BOOLEAN, uniformOk \in BOOLEAN, renderOk \in BOOLEAN :
        /\ compileOk \/ (uniformOk /\ renderOk)
        /\ uniformOk \/ renderOk
        /\ get_or_insert_program(m, MeshColorFrag, compileOk)
        /\ \E r \in { render_with_color(cull[m], color, cop'.result = "ok",
                                        uniformOk, renderOk) } :
            call' = [fn |-> "render_with_color", cull |-> cull[m], color |-> color,
                     states |-> r.states, result |-> r.result]
    /\ UNCHANGED << cull, notDrawVars >>

NextDraw ==
    \/ DrawNew
    \/ DrawDrop
    \/ SetCull
    \/ RenderWithColor

InitOfDraw == InitCache /\ InitNoLight /\ InitNoDraw /\ InitNoRace

\* The InstancedModel objects, their cull modes and their draws with a color.
SpecDraw == InitOfDraw /\ [][NextDraw]_vars

(***************************************************************************)
(* Functions checked on their own: each action calls one on inputs of the  *)
(* sets below and records the call.                                        *)
(***************************************************************************)
\* Longest list of scalars given to a function.
MaxScalars == 6
Scalars == { 0, 1 }
ScalarLists == SeqsUpTo(Scalars, MaxScalars)

\* Imposter::update_positions(&mut self, positions, angles_in_radians): both
\* buffers are filled and instance_count = positions.len() as u32 / 3, the
\* integer division; the function returns ().  (The lengths of the model are
\* far below 2^32, where the cast would wrap.)
Imposter_update_positions(imposter, positions, angles_in_radians) ==
    [imposter EXCEPT !.center_buffer = positions,
                     !.rotation_buffer = angles_in_radians,
                     !.instance_count = Len(positions) \div 3]

\* An Imposter before any update_positions.
Imposter_new == [center_buffer |-> << >>, rotation_buffer |-> << >>, instance_count |-> 0]

UpdatePositions ==
    /\ \E positions \in ScalarLists, angles \in { << >>, << 0 >> } :
        call' = [fn |-> "update_positions", positions |-> positions,
                 imposter |-> Imposter_update_positions(Imposter_new, positions, angles),
                 result |-> "ok"]
    /\ UNCHANGED << cacheVars, cull, notDrawVars >>

\* Non-zero directions along the axes, the diagonals and between them.
AnyDirections ==
    { << x, y, z >> : x, y, z \in { -One, 0, One, 3 * One } } \ { << 0, 0, 0 >> }

\* set_direction(d) on a new light, then direction().
SetThenReadDirection ==
    /\ \E d0 \in Directions, d \in AnyDirections :
        \E r \in { DirectionalLight_set_direction(
                       DirectionalLight_new(One, << One, One, One >>, d0, TRUE, TRUE).val,
                       d) } :
            call' = [fn |-> "set_direction", direction |-> d, result |-> r.result,
                     stored |-> UniformBuffer_get(r.light.light_buffer, 2).val,
                     returned |-> DirectionalLight_direction(r.light)]
    /\ UNCHANGED << cacheVars, cull, notDrawVars >>

\* Directions of length 1.0: along the axes, the diagonals and between them.
UnitDirections ==
    { normalize(d) : d \in { << x, y, z >> : x, y, z \in { -3 * One, -One, 0, One, 3 * One } }
                              \ { << 0, 0, 0 >> } }

\* compute_up_direction(d), as generate_shadow_map calls it with direction().
ComputeUpDirection ==
    /\ \E d \in UnitDirections :
        call' = [fn |-> "compute_up_direction", direction |-> d,
                 up |-> compute_up_direction(d)]
    /\ UNCHANGED << cacheVars, cull, notDrawVars >>

RECURSIVE vector3_vec_flatten_from(_, _, _)
\* The loop of vector3_vec_flatten: v.x, v.y and v.z of each vector pushed
\* in turn.
vector3_vec_flatten_from(vec, i, r) ==
    IF i > Len(vec) THEN r
    ELSE vector3_vec_flatten_from(vec, i + 1,
             Append(Append(Append(r, vec[i][1]), vec[i][2]), vec[i][3]))

vector3_vec_flatten(vec) == vector3_vec_flatten_from(vec, 1, << >>)

\* vector3_slice_flatten: the memory of the slice read as slice.len() * 3
\* scalars; Vector3 is #[repr(C)], so scalar k is field k % 3 of vector
\* k / 3, counting from 0.
vector3_slice_flatten(slice) ==
    [k \in 1..(Len(slice) * 3) |-> slice[((k - 1) \div 3) + 1][((k - 1) % 3) + 1]]

RECURSIVE vector3_vec_fold_overlapping_from(_, _, _)
vector3_vec_fold_overlapping_from(vec, i, r) ==
    IF i >= Len(vec) \div 3 THEN r
    ELSE vector3_vec_fold_overlapping_from(vec, i + 1,
             Append(r, vec3(vec[i + 1], vec[i + 2], vec[i + 3])))
\* The loop with vec[i], vec[i + 1], vec[i + 2].
vector3_vec_fold_overlapping(vec) == vector3_vec_fold_overlapping_from(vec, 0, << >>)

RECURSIVE vector3_vec_fold_from(_, _, _)
\* The loop of vector3_vec_fold, for i in 0..vec.len() / 3.
vector3_vec_fold_from(vec, i, r) ==
    IF i >= Len(vec) \div 3 THEN r
    ELSE vector3_vec_fold_from(vec, i + 1,
             Append(r, vec3(vec[i * 3 + 1], vec[i * 3 + 2], vec[i * 3 + 3])))

vector3_vec_fold(vec) == vector3_vec_fold_from(vec, 0, << >>)

\* Lists of at most MaxScalars / 3 vectors.
VectorLists ==
    SeqsUpTo({ vec3(x, y, z) : x, y, z \in Scalars }, MaxScalars \div 3)

\* vector3_vec_flatten(vec) and vector3_slice_flatten(&vec), then
\* vector3_vec_fold of the flattened list.
FlattenThenFold ==
    /\ \E vec \in VectorLists :
        \E flat \in { vector3_vec_flatten(vec) } :
            call' = [fn |-> "vector3_vec_flatten", vec |-> vec, flat |-> flat,
                     slice |-> vector3_slice_flatten(vec),
                     folded |-> vector3_vec_fold(flat)]
    /\ UNCHANGED << cacheVars, cull, notDrawVars >>

\* vector3_vec_fold(scalars), then vector3_vec_flatten of the folded list.
FoldThenFlatten ==
    /\ \E scalars \in ScalarLists :
        \E folded \in { vector3_vec_fold(scalars) } :
            call' = [fn |-> "vector3_vec_fold", scalars |-> scalars, folded |-> folded,
                     flat |-> vector3_vec_flatten(folded)]
    /\ UNCHANGED << cacheVars, cull, notDrawVars >>

NextCalls ==
    \/ UpdatePositions
    \/ SetThenReadDirection
    \/ ComputeUpDirection
    \/ FlattenThenFold
    \/ FoldThenFlatten

InitOfCalls == InitCache /\ InitNoLight /\ InitNoDraw /\ InitNoRace

\* Calls of the functions that are checked on their own.
SpecCalls == InitOfCalls /\ [][NextCalls]_vars

\* The steps are those of the handlers, or those of the statements of drop.
InitRace ==
    /\ grain \in { "handler", "statement" }
    /\ pc = [m \in Models |-> "idle"]

\* InstancedModel::new by some thread; an object whose drop is still running
\* is not constructed again.
ThreadNew ==
    /\ \E m \in Models, meshOk \in BOOLEAN :
        /\ pc[m] = "idle"
        /\ InstancedModel_new(m, meshOk)
    /\ UNCHANGED << lightVars, drawVars, raceVars >>

\* get_or_insert_program by the thread that holds the object, of a source
\* that compiles.
ThreadGetOrInsert ==
    /\ \E m \in Models, src \in Sources :
        get_or_insert_program(m, src, TRUE)
    /\ UNCHANGED << lightVars, drawVars, raceVars >>

\* The whole of drop as one step.
ThreadDrop ==
    /\ grain = "handler"
    /\ \E m \in Models : InstancedModel_drop(m)
    /\ UNCHANGED << lightVars, drawVars, raceVars >>

\* MESH_COUNT -= 1 of drop (line 184) as one step: the object is gone.
DropDecrement ==
    /\ grain = "statement"
    /\ \E m \in live :
        /\ pc[m] = "idle"
        /\ live' = live \ {m}
        /\ MESH_COUNT' = MESH_COUNT - 1
        /\ count_reaches(MESH_COUNT')
        /\ cop' = CacheOp("decrement", m, 0, "ok", 0, FALSE, 0)
        /\ pc' = [pc EXCEPT ![m] = "test"]
    /\ UNCHANGED << PROGRAMS, compilations, grain, lightVars, drawVars >>

\* if MESH_COUNT == 0 of drop (line 185).
DropTest ==
    /\ \E m \in Models :
        /\ pc[m] = "test"
        /\ pc' = [pc EXCEPT ![m] = IF MESH_COUNT = 0 THEN "reset" ELSE "idle"]
        /\ cop' = CacheOp("test", m, 0, "ok", 0, FALSE, 0)
    /\ UNCHANGED << MESH_COUNT, PROGRAMS, live, compilations, epoch, failures, prior,
                    torn, grain, lightVars, drawVars >>

\* PROGRAMS = None of drop (line 186).
DropReset ==
    /\ \E m \in Models :
        /\ pc[m] = "reset"
        /\ PROGRAMS' = None
        /\ pc' = [pc EXCEPT ![m] = "idle"]
        /\ cop' = CacheOp("reset", m, 0, "ok", 0, FALSE, 0)
    /\ UNCHANGED << MESH_COUNT, live, compilations, epoch, failures, prior, torn,
                    grain, lightVars, drawVars >>

NextThreads ==
    \/ ThreadNew
    \/ ThreadGetOrInsert
    \/ ThreadDrop
    \/ DropDecrement
    \/ DropTest
    \/ DropReset

InitOfThreads == InitCache /\ InitNoLight /\ InitNoDraw /\ InitRace

\* The cache used by several threads, at either grain.
SpecThreads == InitOfThreads /\ [][NextThreads]_vars

(***************************************************************************)
(* Properties of the program cache, under SpecCache.                       *)
(***************************************************************************)
RECURSIVE SumOver(_, _)
\* The sum of f over the set S.
SumOver(f, S) ==
    IF S = {} THEN 0
    ELSE LET x == CHOOSE y \in S : TRUE
         IN f[x] + SumOver(f, S \ {x})

IsRequest == cop.name = "get_or_insert_program"

\* C1: since the count last fell to zero, a request for a source in the
\* cache compiles nothing, changes no entry and returns the entry there is; a
\* request for a source not in the cache compiles exactly once and, when the
\* compilation succeeds, adds exactly that one entry.  So every source has at
\* most one successful compilation, the entries are exactly the sources
\* compiled, distinct sources have distinct programs, and the compilations
\* made are one per entry plus the failed ones.
C1_HitReturnsEntryMissCompilesOnce ==
    /\ \A s \in Sources : epoch[s] <= 1
    /\ DOMAIN programs_map = {s \in Sources : epoch[s] = 1}
    /\ \A s, t \in DOMAIN programs_map : s # t => programs_map[s] # programs_map[t]
    /\ compilations - torn
         = Cardinality(DOMAIN programs_map) + SumOver(failures, Sources)
    /\ IsRequest =>
         IF cop.source \in DOMAIN cop.before
         THEN /\ cop.hit
              /\ cop.compiled = 0
              /\ cop.result = "ok"
              /\ cop.program = cop.before[cop.source]
              /\ programs_map = cop.before
         ELSE /\ ~cop.hit
              /\ cop.compiled = 1
              /\ cop.result = "ok" =>
                   /\ programs_map = map_insert(cop.before, cop.source, cop.program)
                   /\ Cardinality(DOMAIN programs_map)
                        = Cardinality(DOMAIN cop.before) + 1

\* Two objects live, two sources compiled, and the last request, made by an
\* object for a source in the cache, was a hit: two compilations, two entries.
C1_Witness ==
    /\ IsRequest /\ cop.hit
    /\ MESH_COUNT = 2
    /\ Cardinality(DOMAIN programs_map) = 2
    /\ compilations - torn = 2

\* C2: when the drop of the last live object brings the count to zero the
\* cache is None; every entry of the cache, and every program a request
\* returns, was compiled after the count last fell to zero; the first object
\* constructed after that finds no entry; and a request that finds its source
\* follows a successful compilation of that source made after that.
C2_NoEntrySurvivesTeardown ==
    /\ (cop.name = "drop" /\ MESH_COUNT = 0) => is_none(PROGRAMS)
    /\ \A s \in DOMAIN programs_map : programs_map[s] > torn
    /\ (cop.name = "new" /\ cop.result = "ok" /\ MESH_COUNT = 1) => programs_map = << >>
    /\ (IsRequest /\ cop.result = "ok") => cop.program > torn
    /\ (IsRequest /\ cop.hit) => epoch[cop.source] = 1

\* A source compiled before the count fell to zero is requested after it and
\* compiled again.
C2_Witness ==
    /\ IsRequest /\ cop.result = "ok"
    /\ cop.source \in prior
    /\ cop.compiled = 1
    /\ cop.before = << >>

\* C3: MESH_COUNT is the number of live InstancedModel objects, and is never
\* negative.
C3_CountIsLiveObjects ==
    /\ MESH_COUNT = Cardinality(live)
    /\ MESH_COUNT >= 0

\* After a drop to zero, a construction failed while one object is live.
C3_Witness ==
    /\ cop.name = "new" /\ cop.result = "err"
    /\ MESH_COUNT = 1
    /\ prior # {}

\* C4: a request whose compilation failed returned the error, was a miss
\* that compiled once, and left the map as it was, without an entry for its
\* source; every entry comes from a successful compilation; and a request for
\* a source with no successful compilation compiles.
C4_FailedCompilationInsertsNothing ==
    /\ (IsRequest /\ cop.result = "err") =>
         /\ ~cop.hit
         /\ cop.compiled = 1
         /\ cop.program = 0
         /\ programs_map = cop.before
         /\ cop.source \notin DOMAIN programs_map
    /\ \A s \in DOMAIN programs_map : epoch[s] >= 1 /\ programs_map[s] # 0
    /\ \A s \in Sources : (failures[s] > 0 /\ epoch[s] = 0) => s \notin DOMAIN programs_map
    /\ (IsRequest /\ cop.source \notin DOMAIN cop.before) => cop.compiled = 1

\* With an entry in the cache, a source failed to compile for the second
\* time: the request after the first failure compiled again.
C4_Witness ==
    /\ IsRequest /\ cop.result = "err"
    /\ failures[cop.source] = 2
    /\ DOMAIN cop.before # {}

\* C16: a drop that leaves an object live, and a construction, leave the
\* map of the cache as it was; a request leaves every entry there was, with
\* its program; so only a drop to zero removes or replaces an entry.
C16_EntriesKeptUntilTeardown ==
    /\ (cop.name = "drop" /\ MESH_COUNT > 0) =>
         /\ programs_map = cop.before
         /\ (cop.before # << >> => is_some(PROGRAMS))
    /\ cop.name = "new" => programs_map = cop.before
    /\ IsRequest =>
         \A s \in DOMAIN cop.before :
            s \in DOMAIN programs_map /\ programs_map[s] = cop.before[s]
    /\ programs_map # cop.before =>
         \/ IsRequest /\ ~cop.hit /\ cop.result = "ok"
         \/ cop.name = "drop" /\ MESH_COUNT = 0

\* An object was dropped while another is live and two entries are cached.
C16_Witness ==
    /\ cop.name = "drop"
    /\ MESH_COUNT = 1
    /\ Cardinality(DOMAIN programs_map) = 2

\* C21: whenever MESH_COUNT is zero PROGRAMS is None, after any
\* constructions, drops and requests, failed compilations included.
C21_NoCacheAtCountZero == MESH_COUNT = 0 => is_none(PROGRAMS)

\* The last object was dropped with entries in the cache, after more
\* compilations than there are entries: one failed, or was torn down before.
C21_Witness ==
    /\ cop.name = "drop"
    /\ MESH_COUNT = 0
    /\ cop.before # << >>
    /\ is_none(PROGRAMS)
    /\ torn > Cardinality(DOMAIN cop.before)

(***************************************************************************)
(* Properties of DirectionalLight, under SpecLight and SpecPass.           *)
(***************************************************************************)
\* Slot i of the light's uniform buffer, by the index the code uses.
Slot(l, i) == UniformBuffer_get(l.light_buffer, i).val

\* The Disabled state: no camera, the 1x1 texture, shadow flag 0.0.
Disabled(l) ==
    /\ is_none(l.shadow_camera)
    /\ l.shadow_texture = [width |-> 1, height |-> 1]
    /\ Slot(l, 3) = << 0 >>

\* The Enabled state: a camera, the texture of the given size, shadow flag
\* 1.0 and the shadow matrix of the camera in slot 4.
Enabled(l, size) ==
    /\ is_some(l.shadow_camera)
    /\ l.shadow_texture = [width |-> size[1], height |-> size[2]]
    /\ Slot(l, 3) = << One >>
    /\ Slot(l, 4) = Mat4_to_slice(shadow_matrix(unwrap(l.shadow_camera)))

IsGenerate == lop.name = "generate_shadow_map"
IsClear == lop.name = "clear_shadow_map"

\* C5: a light as new returns it is Disabled and has a color, an intensity
\* and a normalized direction of the inputs in slots 0, 1 and 2; and while
\* the last of the light's clear_shadow_map and generate_shadow_map calls was
\* a clear that completed (or there was none) the light is Disabled, while it
\* was a generate that returned Ok the light is Enabled with the texture size
\* that call asked for.
C5_DisabledOrEnabled ==
    /\ (lop.name = "new" /\ lop.result = "ok") =>
         /\ Disabled(unwrap(light))
         /\ Slot(unwrap(light), 0) \in { Vec3_to_slice(c) : c \in Colors }
         /\ Slot(unwrap(light), 1) \in { << i >> : i \in Intensities }
         /\ Slot(unwrap(light), 2) \in { Vec3_to_slice(normalize(d)) : d \in Directions }
    /\ lop.shadow \in {"new", "clear"} => Disabled(unwrap(light))
    /\ lop.shadow = "gen_ok" =>
         /\ Enabled(unwrap(light), lop.texture)
         /\ ~Disabled(unwrap(light))

\* generate_shadow_map returned Ok for a 1024x256 texture and two geometries.
C5_Witness ==
    /\ IsGenerate /\ lop.result = "ok"
    /\ lop.texture = << 1024, 256 >>
    /\ Len(lop.geometries) = 2
    /\ Enabled(unwrap(light), << 1024, 256 >>)

\* C6: from every state of a usable light, clear_shadow_map completes and a
\* second clear_shadow_map, whether its allocation succeeds or not, leaves
\* the light exactly as the first left it: Disabled, every slot equal.
C6_ClearTwiceIsClearOnce ==
    usable =>
        LET once == DirectionalLight_clear_shadow_map(unwrap(light), TRUE)
        IN /\ once.result = "ok"
           /\ Disabled(once.light)
           /\ \A textureOk \in BOOLEAN :
                DirectionalLight_clear_shadow_map(once.light, textureOk).light
                  = once.light
           /\ (IsClear /\ lop.result = "ok") => once.light = unwrap(light)

\* clear_shadow_map was called twice in a row on a light whose slot 4 holds
\* a shadow matrix.
C6_Witness ==
    /\ IsClear /\ lop.again /\ lop.result = "ok"
    /\ Slot(unwrap(light), 4) # zeros(16)

\* C7: after generate_shadow_map(args), clear_shadow_map, and
\* generate_shadow_map(args) again, all three completed and nothing between
\* them, slot 4 holds what the first generate_shadow_map wrote to it.
C7_RegenerateSameMatrix ==
    cycle.stage = 3 => Slot(unwrap(light), 4) = cycle.matrix

\* The round trip was made with geometries to render.
C7_Witness ==
    /\ cycle.stage = 3
    /\ IsGenerate /\ lop.rendered # << >>

\* C8: whichever step of generate_shadow_map fails, the call returns Err.
\* The allocation of the texture refutes it: its result is unwrapped.
C8_EveryFailureReturnsErr ==
    (IsGenerate /\ lop.failed # "none") => lop.result = "err"

\* C9: clear_shadow_map completes and leaves the light Disabled.  The
\* allocation of the 1x1 texture refutes it: its result is unwrapped.
C9_ClearAlwaysCompletes ==
    IsClear => lop.result = "ok" /\ Disabled(unwrap(light))

\* The culling test of the loop for the geometry at a position of the pool.
Included(camera, g) ==
    \/ is_none(Geometry_aabb(GeometryPool[g]))
    \/ Camera_in_frustum(camera, unwrap(Geometry_aabb(GeometryPool[g])))

Range(q) == { q[k] : k \in DOMAIN q }

\* C10: when generate_shadow_map returned Ok, the positions rendered are
\* those of the list whose geometry has no bounding box or has one in the
\* frustum of the light's camera, each once and in the order of the list;
\* and the position of every instanced model is among them.
C10_RenderedAreTheIncluded ==
    (IsGenerate /\ lop.result = "ok") =>
        LET camera == unwrap(unwrap(light).shadow_camera)
            gs == lop.geometries
        IN /\ Range(lop.rendered) = { i \in DOMAIN gs : Included(camera, gs[i]) }
           /\ \A j, k \in DOMAIN lop.rendered :
                j < k => lop.rendered[j] < lop.rendered[k]
           /\ \A i \in DOMAIN gs :
                GeometryPool[gs[i]].kind = "instanced" => i \in Range(lop.rendered)

\* A box outside the frustum followed by an instanced model: only the
\* instanced model is rendered.
C10_Witness ==
    /\ IsGenerate /\ lop.result = "ok"
    /\ lop.geometries = << 1, 3 >>
    /\ lop.rendered = << 2 >>

\* The slots of the uniform buffer in which the lights l and m differ.
SlotsChanged(l, m) == { i \in 0..4 : Slot(l, i) # Slot(m, i) }

\* m is l but for the given slots, the camera and the texture the same.
SetterFrame(l, m, slots) ==
    /\ SlotsChanged(l, m) \subseteq slots
    /\ m.shadow_camera = l.shadow_camera
    /\ m.shadow_texture = l.shadow_texture

\* Every outcome of generate_shadow_map on l for the inputs of the model.
GenerateOutcomes(l) ==
    UNION { LET camera == shadow_camera_new(l, target, frustum[1], frustum[2],
                                            frustum[3], cameraOk)
                begun == generate_shadow_map_camera(l, camera)
            IN { generate_shadow_map_pass(begun, size[1], size[2], geometries,
                                          textureOk, failAt) :
                   size \in TextureSizes, geometries \in SceneLists,
                   textureOk \in BOOLEAN, failAt \in 0..MaxGeometries } :
            target \in Targets, frustum \in Frustums, cameraOk \in BOOLEAN }

\* C11: on every state of a usable light, set_color changes at most slot 0,
\* set_intensity slot 1 and set_direction slot 2, each leaving the camera and
\* the texture as they are; clear_shadow_map changes at most slot 3, and
\* generate_shadow_map at most slots 3 and 4, whatever their outcome.
C11_OperationsWriteOwnSlots ==
    usable =>
        LET l == unwrap(light)
        IN /\ \A c \in Colors :
                SetterFrame(l, DirectionalLight_set_color(l, c).light, {0})
           /\ \A i \in Intensities :
                SetterFrame(l, DirectionalLight_set_intensity(l, i).light, {1})
           /\ \A d \in Directions :
                SetterFrame(l, DirectionalLight_set_direction(l, d).light, {2})
           /\ \A textureOk \in BOOLEAN :
                SlotsChanged(l, DirectionalLight_clear_shadow_map(l, textureOk).light)
                  \subseteq {3}
           /\ \A g \in GenerateOutcomes(l) : SlotsChanged(l, g.light) \subseteq {3, 4}
           /\ (lop.name = "set_direction" /\ lop.shadow = "gen_ok") =>
                Enabled(l, lop.texture)

\* set_direction was called on an Enabled light and changed slot 2: the
\* direction stored is no longer the one the camera looks along.
C11_Witness ==
    /\ lop.name = "set_direction" /\ lop.result = "ok"
    /\ lop.shadow = "gen_ok"
    /\ Slot(unwrap(light), 3) = << One >>
    /\ Slot(unwrap(light), 2) # Vec3_to_slice(unwrap(unwrap(light).shadow_camera).forward)

\* C17: on every state of a usable light, a generate_shadow_map in which
\* the render_depth of the geometry at position failAt fails, that geometry
\* being one the loop renders, returns Err, has rendered the included
\* geometries before that position and none after it, and leaves slot 3 as
\* it was before the call; and a call that returned Ok has set slot 3 to 1.0.
C17_FlagWrittenLast ==
    usable =>
        LET l == unwrap(light)
        IN \A target \in Targets, frustum \in Frustums, size \in TextureSizes,
              geometries \in SceneLists :
            LET camera == shadow_camera_new(l, target, frustum[1], frustum[2],
                                            frustum[3], TRUE)
                begun == generate_shadow_map_camera(l, camera)
            IN \A failAt \in 0..Len(geometries) :
                LET g == generate_shadow_map_pass(begun, size[1], size[2],
                                                  geometries, TRUE, failAt)
                IN IF failAt > 0 /\ Included(camera.val, geometries[failAt])
                   THEN /\ g.result = "err" /\ g.failed = "render"
                        /\ Slot(g.light, 3) = Slot(l, 3)
                        /\ Range(g.rendered)
                             = { i \in 1..(failAt - 1) : Included(camera.val, geometries[i]) }
                   ELSE /\ g.result = "ok"
                        /\ Slot(g.light, 3) = << One >>

\* The render of a box failed on a light whose flag was 1.0: nothing was
\* rendered, the instanced model after the box included, and the flag is
\* still 1.0.
C17_Witness ==
    /\ IsGenerate /\ lop.result = "err" /\ lop.failed = "render"
    /\ lop.geometries = << 1, 3 >>
    /\ lop.rendered = << >>
    /\ Slot(unwrap(light), 3) = << One >>

(***************************************************************************)
(* Properties of the cache used by several threads, under SpecThreads.     *)
(***************************************************************************)
\* The last step emptied a cache that had entries while an object is live.
TornDownWhileLive ==
    /\ cop.before # << >>
    /\ is_none(PROGRAMS)
    /\ live # {}

\* C18, as stated: with get_or_insert_program, the increment and the
\* decrement each one step, the count is the number of live objects and the
\* cache is never emptied while an object is live.  The steps of drop after
\* its decrement refute it: an object is constructed and compiles a program
\* between the test and the reset.
C18_AtomicCountAndRequest ==
    /\ MESH_COUNT = Cardinality(live)
    /\ ~TornDownWhileLive

\* C18, amended: when the decrement, the test for zero and the reset of drop
\* are one step together, the count is the number of live objects and the
\* cache is never emptied while an object is live.
C18_AtomicHandlers ==
    grain = "handler" =>
        /\ MESH_COUNT = Cardinality(live)
        /\ ~TornDownWhileLive

\* With whole handlers as steps, the last object was dropped and its drop
\* emptied a cache of two entries.
C18_Witness ==
    /\ grain = "handler"
    /\ cop.name = "drop"
    /\ Cardinality(DOMAIN cop.before) = 2
    /\ is_none(PROGRAMS)
    /\ live = {}

(***************************************************************************)
(* Properties of the draw calls, under SpecDraw.                           *)
(***************************************************************************)
\* C12: the render states render_with_color gives to mesh.render are, for a
\* color of alpha 255, the defaults with the configured cull mode (no
\* blending, write mask color and depth, depth test Less) and, for any other
\* alpha, those with the write mask color only and the transparency blend;
\* nothing of them depends on r, g, b.
C12_ColorRenderStates ==
    (call.fn = "render_with_color" /\ is_some(call.states)) =>
        unwrap(call.states) =
            IF call.color.a = 255
            THEN [write_mask |-> "COLOR_AND_DEPTH", depth_test |-> "Less",
                  cull |-> call.cull, blend |-> None]
            ELSE [write_mask |-> "COLOR", depth_test |-> "Less",
                  cull |-> call.cull, blend |-> Some("TRANSPARENCY")]

\* An opaque color drawn by an object whose cull mode was set to Back.
C12_Witness ==
    /\ call.fn = "render_with_color" /\ call.result = "ok"
    /\ call.color.a = 255
    /\ call.cull = "Back"
    /\ unwrap(call.states).cull = "Back"

(***************************************************************************)
(* Properties of the functions checked on their own, under SpecCalls.      *)
(***************************************************************************)
\* C14: update_positions gives instance_count = length / 3 for a positions
\* list whose length is a multiple of 3, and an error for any other length.
\* A list of length 4 refutes it: the call completes with instance_count 1.
C14_PositionsLengthChecked ==
    call.fn = "update_positions" =>
        IF Len(call.positions) % 3 = 0
        THEN call.imposter.instance_count * 3 = Len(call.positions)
        ELSE call.result = "err"

\* The largest absolute value of a component of v.
MaxAbs(v) ==
    LET m == IF Abs(v[1]) > Abs(v[2]) THEN Abs(v[1]) ELSE Abs(v[2])
    IN IF m > Abs(v[3]) THEN m ELSE Abs(v[3])

\* u has length 1.0 to within the truncation of the three components.
NearlyUnit(u) == Abs(magnitude(u) - One) <= 2

\* u points the way of d: their dot product is positive and their cross
\* product zero to within the truncation of the components of u.
SameWay(u, d) ==
    /\ dot(u, d) > 0
    /\ \A k \in 1..3 : Abs(cross(u, d)[k]) <= 2 * (MaxAbs(d) \div Scale) + 1

ReferenceAxis(d) ==
    IF 10 * Abs(d[1]) > 9 * One THEN vec3(0, One, 0) ELSE vec3(One, 0, 0)

\* u and d are orthogonal to within the truncation of their components.
Orthogonal(u, d) == Abs(dot(u, d)) <= 2

\* C19: for a unit direction d the up vector is the normalized cross product
\* of the reference axis with d, it is orthogonal to d and its length is
\* 1.0, not zero.
C19_UpOrthogonalToDirection ==
    call.fn = "compute_up_direction" =>
        /\ call.up = normalize(cross(ReferenceAxis(call.direction), call.direction))
        /\ magnitude(cross(ReferenceAxis(call.direction), call.direction)) > 0
        /\ NearlyUnit(call.up)
        /\ Orthogonal(call.up, call.direction)

\* The up vector of a direction within 0.9 of the x axis but not along it.
C19_Witness ==
    /\ call.fn = "compute_up_direction"
    /\ 10 * Abs(call.direction[1]) > 9 * One
    /\ call.direction[2] # 0
    /\ magnitude(call.up) > 0

\* C20: vector3_vec_flatten of n vectors is the 3n scalars x, y, z of each
\* vector in order, vector3_slice_flatten gives the same scalars,
\* vector3_vec_fold of the flattened list is the list of vectors, and
\* flattening the fold of 3n scalars gives the scalars back.
C20_FlattenFoldInverse ==
    /\ call.fn = "vector3_vec_flatten" =>
        /\ Len(call.flat) = 3 * Len(call.vec)
        /\ \A i \in 1..Len(call.vec) : \A k \in 1..3 :
               call.flat[3 * (i - 1) + k] = call.vec[i][k]
        /\ call.slice = call.flat
        /\ call.folded = call.vec
    /\ (call.fn = "vector3_vec_fold" /\ Len(call.scalars) % 3 = 0) =>
        /\ Len(call.folded) = Len(call.scalars) \div 3
        /\ call.flat = call.scalars

\* Six scalars, not all alike, folded into two vectors.
C20_Witness ==
    /\ call.fn = "vector3_vec_fold"
    /\ Len(call.scalars) = 6
    /\ Len(call.folded) = 2
    /\ call.folded[1] # call.folded[2]
    /\ call.scalars[1] # call.scalars[2]

\* C22: in every state of the light, shadow flag 1.0 in slot 3 implies that
\* the light has a shadow camera.  clear_shadow_map refutes it: on an Enabled
\* light it drops the camera, and the unwrap of the 1x1 texture panics before
\* slot 3 is set to 0.0.
C22_FlagImpliesCamera ==
    is_some(light) =>
        (Slot(unwrap(light), 3) = << One >> => is_some(unwrap(light).shadow_camera))

\* generate_shadow_map on l with every step succeeding.
GenerateOk(l, target, frustum, size, geometries) ==
    LET camera == shadow_camera_new(l, target, frustum[1], frustum[2], frustum[3], TRUE)
        begun == generate_shadow_map_camera(l, camera)
    IN generate_shadow_map_pass(begun, size[1], size[2], geometries, TRUE, 0)

\* C23: on every state of a usable light, Enabled or not, a
\* generate_shadow_map that returns Ok leaves the camera made from its
\* arguments and the light's direction, the texture of the size asked for,
\* shadow flag 1.0 and the camera's shadow matrix in slot 4: the light it
\* leaves is the one the same call leaves on that light after
\* clear_shadow_map.
C23_GenerateIgnoresShadowState ==
    usable =>
        \A l \in { unwrap(light) } :
        \A disabled \in { DirectionalLight_clear_shadow_map(l, TRUE).light } :
            /\ Disabled(disabled)
            /\ \A target \in Targets, frustum \in Frustums, size \in TextureSizes,
                  geometries \in SceneLists :
                \A r \in { GenerateOk(l, target, frustum, size, geometries) } :
                    /\ r.result = "ok"
                    /\ r.light.shadow_camera
                         = Some(shadow_camera_new(l, target, frustum[1], frustum[2],
                                                  frustum[3], TRUE).val)
                    /\ Enabled(r.light, size)
                    /\ r.light = GenerateOk(disabled, target, frustum, size,
                                            geometries).light

\* The light is Enabled by a generate_shadow_map for a 512x512 texture, and
\* a call for another frustum and a 1024x256 texture replaces the camera,
\* the texture and the matrix of slot 4.
C23_Witness ==
    /\ usable
    /\ IsGenerate /\ lop.result = "ok" /\ lop.texture = << 512, 512 >>
    /\ Enabled(unwrap(light), << 512, 512 >>)
    /\ \E target \in Targets, frustum \in Frustums :
        LET r == GenerateOk(unwrap(light), target, frustum, << 1024, 256 >>, << 3 >>)
        IN /\ r.result = "ok"
           /\ r.light.shadow_camera # unwrap(light).shadow_camera
           /\ r.light.shadow_texture = [width |-> 1024, height |-> 256]
           /\ Slot(r.light, 4) # Slot(unwrap(light), 4)

====
